---- MODULE Spec2Model ----
(***************************************************************************)
(* A model of the Dia-Log glucose API (api/main.py and api/services/*.py). *)
(*                                                                         *)
(*  - the feature builder (services/feature_builder.py), a pure function;  *)
(*  - the model cache (services/model_service.py, load_model, and          *)
(*    services/meal_response_service.py, load_meal_model), shared by the   *)
(*    worker threads that serve the synchronous endpoints;                 *)
(*  - the /predict endpoint (main.py, predict);                            *)
(*  - the meal-response curve synthesizer of the design.                   *)
(*                                                                         *)
(* Python values are records tagged by their type in field t.  A float is  *)
(* kept exactly: fn = "rat" is the rational num/den (in lowest terms,      *)
(* den > 0), fn = "sqrt" is the square root of num/den, fn = "sin" and     *)
(* fn = "cos" are the sine and cosine of 2*pi*num/den, and fn = "nan" is   *)
(* NaN.  Rounding of IEEE doubles is not modelled.                         *)
(***************************************************************************)
EXTENDS Integers, Sequences, FiniteSets, TLC

VARIABLES
    fb_args,      \* the arguments of the last build_features call, or NoCall
    fb_result,    \* what that call returned (a FeatureBuildResult), or NoCall
    MODEL,        \* model_service._MODEL
    MEAL_OBJ,     \* meal_response_service._MEAL_OBJ
    fs,           \* the files on disk, by absolute path
    cwd,          \* the working directory of the server process
    pc,           \* per worker thread: the line it is at
    arg,          \* per worker thread: model_path of its current call
    tmp,          \* per worker thread: the object joblib.load returned to it
    ret,          \* per worker thread: what its last call returned or raised
    calls,        \* per worker thread: the calls it has started
    loads,        \* per path: how many times joblib.load has read it
    request,      \* the last /predict request received, or NoCall
    response,     \* the outcome of that request, or NoCall
    curve_args,   \* the parameters the curve is synthesized from, or NoCall
    curve,        \* the synthesized Curve, or NoCall
    bs_args,      \* the arguments of the last _baseline_and_slope call, or NoCall
    bs_result     \* the (base, slope) pair that call returned, or NoCall

vars == <<fb_args, fb_result, MODEL, MEAL_OBJ, fs, cwd, pc, arg, tmp, ret, calls,
          loads, request, response, curve_args, curve, bs_args, bs_result>>

featureVars == <<fb_args, fb_result>>
registryVars == <<MODEL, MEAL_OBJ, fs, cwd, pc, arg, tmp, ret, calls, loads>>
predictVars == <<request, response>>
curveVars == <<curve_args, curve>>
baselineVars == <<bs_args, bs_result>>

NoCall == [t |-> "nocall"]

-----------------------------------------------------------------------------
(* Python values *)

None == [t |-> "None"]
Str(s) == [t |-> "str", s |-> s]

RECURSIVE Gcd(_, _)
Gcd(a, b) == IF b = 0 THEN a ELSE Gcd(b, a % b)

Abs(a) == IF a < 0 THEN -a ELSE a

\* The float num/den, den # 0.
Float(n, d) ==
    LET g == Gcd(Abs(n), Abs(d))
        s == IF d < 0 THEN -1 ELSE 1
    IN  [t |-> "float", fn |-> "rat", num |-> s * (n \div g), den |-> s * (d \div g)]

NaN == [t |-> "float", fn |-> "nan", num |-> 0, den |-> 1]

IsNaN(v) == v.t = "float" /\ v.fn = "nan"

\* a / b on rational floats, b # 0
FDiv(a, b) == Float(a.num * b.den, a.den * b.num)

\* float(x) of a Python value that is already a float.
PyFloat(v) == v

\* The largest r in lo..hi with r * r <= q, given lo * lo <= q.
RECURSIVE RootIn(_, _, _)
RootIn(q, lo, hi) ==
    IF lo >= hi THEN lo
    ELSE LET mid == (lo + hi + 1) \div 2
         IN  IF mid * mid <= q THEN RootIn(q, mid, hi) ELSE RootIn(q, lo, mid - 1)

\* The integer root of a perfect square q >= 0, or -1.
ISqrt(q) == LET r == RootIn(q, 0, q) IN IF r * r = q THEN r ELSE -1

\* sqrt of the rational n/d >= 0: rational when n and d are perfect squares.
FSqrt(n, d) ==
    LET f == Float(n, d)
    IN  IF ISqrt(f.num) >= 0 /\ ISqrt(f.den) >= 0
        THEN Float(ISqrt(f.num), ISqrt(f.den))
        ELSE [t |-> "float", fn |-> "sqrt", num |-> f.num, den |-> f.den]

\* math.sin and math.cos of 2*pi*(n/d); exact at angle 0.
FSin(n, d) ==
    IF n = 0 THEN Float(0, 1)
    ELSE [t |-> "float", fn |-> "sin", num |-> Float(n, d).num, den |-> Float(n, d).den]

FCos(n, d) ==
    IF n = 0 THEN Float(1, 1)
    ELSE [t |-> "float", fn |-> "cos", num |-> Float(n, d).num, den |-> Float(n, d).den]

\* Truthiness of an Optional[str]: None and "" are falsy.
Truthy(v) == v.t = "str" /\ v.s # ""

Range(s) == {s[i] : i \in DOMAIN s}

\* d[k] = v on a Python dict: the key is added when it is new.
DictSet(d, k, v) == [x \in (DOMAIN d) \cup {k} |-> IF x = k THEN v ELSE d[x]]

-----------------------------------------------------------------------------
(* numpy on a 1-d float array: a sequence of floats that are integers or NaN *)

HasNaN(a) == \E i \in DOMAIN a : IsNaN(a[i])

RECURSIVE SumTo(_, _)
SumTo(a, i) == IF i = 0 THEN 0 ELSE a[i].num + SumTo(a, i - 1)

RECURSIVE SumSqTo(_, _)
SumSqTo(a, i) == IF i = 0 THEN 0 ELSE a[i].num * a[i].num + SumSqTo(a, i - 1)

\* sum of (j-1) * a[j] for j in 1..i: the array against np.arange(len(a))
RECURSIVE SumIdxTo(_, _)
SumIdxTo(a, i) == IF i = 0 THEN 0 ELSE (i - 1) * a[i].num + SumIdxTo(a, i - 1)

\* a.mean(), len(a) > 0
NpMean(a) == IF HasNaN(a) THEN NaN ELSE Float(SumTo(a, Len(a)), Len(a))

\* a.std(ddof=0), len(a) > 0: sqrt(mean(x^2) - mean(x)^2)
NpStd(a) ==
    LET n == Len(a)
        s == SumTo(a, n)
    IN  IF HasNaN(a) THEN NaN ELSE FSqrt(n * SumSqTo(a, n) - s * s, n * n)

\* a[-k:] for 1 <= k: the last k elements, all of a when k >= len(a)
PyTail(a, k) == IF k >= Len(a) THEN a ELSE SubSeq(a, Len(a) - k + 1, Len(a))

\* a[j] for a negative index j, -len(a) <= j <= -1
PyNegIndex(a, j) == a[Len(a) + j + 1]

-----------------------------------------------------------------------------
(* services/feature_builder.py *)

EXPECTED_COLS ==
    << "gl_lag_1", "gl_lag_2", "gl_lag_3", "gl_lag_5", "gl_lag_10", "gl_lag_15", "gl_lag_30",
       "gl_slope_5", "gl_slope_15",
       "gl_rm_5", "gl_rs_5", "gl_rm_15", "gl_rs_15", "gl_rm_30", "gl_rs_30",
       "tod_sin", "tod_cos",
       "HR", "METs",
       "Calories (Activity)", "Calories", "Carbs", "Protein", "Fat", "Fiber",
       "Amount Consumed", "Meal Type", "Steps" >>

\* The attributes of the dataclass FeatureBuildResult.
FeatureBuildResultFields == {"mode", "features", "features_used_cols"}

FeatureBuildResult(mode, features, used) ==
    [t |-> "FeatureBuildResult", mode |-> mode, features |-> features,
     features_used_cols |-> used]

\* _safe_std
SafeStd(x) == IF Len(x) > 0 THEN NpStd(x) ELSE Float(0, 1)

\* _slope_last_k, k >= 1: cov(x, y) / var(x) with x = np.arange(k), y = arr[-k:]
SlopeLastK(a, k) ==
    IF Len(a) < k THEN Float(0, 1)
    ELSE LET y == PyTail(a, k)
             sx == (k * (k - 1)) \div 2
             vx == Float(k * k - 1, 12)
         IN  IF vx.num = 0 THEN Float(0, 1)
             ELSE IF HasNaN(y) THEN NaN
             ELSE FDiv(Float(k * SumIdxTo(y, k) - sx * SumTo(y, k), k * k), vx)

\* A timestamp string that datetime.fromisoformat accepts carries its parse:
\* sec, the seconds since the epoch of the model, and aware, whether it
\* names a UTC offset (Z or +00:00).  Any other string is one that fromisoformat rejects.
IsoStr(sec, aware) == [t |-> "str", s |-> "iso", sec |-> sec, aware |-> aware]

IsIso(v) == v.t = "str" /\ v.s = "iso"

SecondsPerDay == 86400

\* _tod_sin_cos of feature_builder: <<sin, cos>>
TodSinCos(ts_iso) ==
    IF ~Truthy(ts_iso) THEN <<Float(0, 1), Float(0, 1)>>
    ELSE IF ~IsIso(ts_iso) THEN <<Float(0, 1), Float(0, 1)>>
    ELSE LET seconds == ts_iso.sec % SecondsPerDay
         IN  <<FSin(seconds, SecondsPerDay), FCos(seconds, SecondsPerDay)>>

\* {c: 0.0 for c in EXPECTED_COLS}
DefaultRow == [c \in Range(EXPECTED_COLS) |-> Float(0, 1)]

\* meal_type or "Unknown"
MealTypeOrUnknown(meal_type) == IF Truthy(meal_type) THEN meal_type ELSE Str("Unknown")

\* float(v) if v is not None else 0.0
FloatOrZero(v) == IF v # None THEN PyFloat(v) ELSE Float(0, 1)

UsedMin ==
    << "gl_lag_1", "gl_rm_5", "gl_slope_5", "tod_sin", "tod_cos",
       "Calories", "Carbs", "Steps", "Meal Type" >>

UsedFallback ==
    << "gl_lag_1", "gl_lag_2", "gl_lag_3", "gl_lag_5", "gl_lag_10", "gl_lag_15",
       "gl_slope_5", "gl_slope_15",
       "gl_rm_5", "gl_rs_5", "gl_rm_15", "gl_rs_15",
       "tod_sin", "tod_cos",
       "HR", "METs", "Steps", "Calories (Activity)",
       "Calories", "Carbs", "Protein", "Fat", "Fiber",
       "Amount Consumed", "Meal Type" >>

\* The mode decision of build_features, n >= 1.
ModeOf(n) == IF n >= 30 THEN "full" ELSE IF n >= 10 THEN "fallback" ELSE "min"

\* Lag with the index off by one: arr[-i] in place of arr[-1 - i].
LagOffByOne(a, i) == IF Len(a) > i THEN PyFloat(PyNegIndex(a, -i)) ELSE Float(0, 1)

\* lag(i) of build_features
Lag(a, i) == IF Len(a) > i THEN PyFloat(PyNegIndex(a, -1 - i)) ELSE Float(0, 1)

\* tail(k) of build_features (Tail is the operator of Sequences)
TailK(a, k) == IF Len(a) >= k THEN PyTail(a, k) ELSE << >>

\* float(t.mean()) if len(t) else 0.0
MeanOrZero(x) == IF Len(x) # 0 THEN NpMean(x) ELSE Float(0, 1)

\* lines 105-111
SetLags(f, a) ==
    LET f1 == DictSet(f, "gl_lag_1", Lag(a, 1))
        f2 == DictSet(f1, "gl_lag_2", Lag(a, 2))
        f3 == DictSet(f2, "gl_lag_3", Lag(a, 3))
        f4 == DictSet(f3, "gl_lag_5", Lag(a, 5))
        f5 == DictSet(f4, "gl_lag_10", Lag(a, 10))
        f6 == DictSet(f5, "gl_lag_15", Lag(a, 15))
    IN  DictSet(f6, "gl_lag_30", Lag(a, 30))

\* lines 117-126
SetRolling(f, a) ==
    LET t5 == TailK(a, 5)
        t15 == TailK(a, 15)
        t30 == TailK(a, 30)
        f1 == DictSet(f, "gl_rm_5", MeanOrZero(t5))
        f2 == DictSet(f1, "gl_rs_5", SafeStd(t5))
        f3 == DictSet(f2, "gl_rm_15", MeanOrZero(t15))
        f4 == DictSet(f3, "gl_rs_15", SafeStd(t15))
        f5 == DictSet(f4, "gl_rm_30", MeanOrZero(t30))
    IN  DictSet(f5, "gl_rs_30", SafeStd(t30))

\* lines 129-130
SetSlopes(f, a) ==
    LET n == Len(a)
        f1 == DictSet(f, "gl_slope_5", IF n >= 2 THEN SlopeLastK(a, 5) ELSE Float(0, 1))
    IN  DictSet(f1, "gl_slope_15", IF n >= 2 THEN SlopeLastK(a, 15) ELSE Float(0, 1))

\* lines 133-135
SetTimeOfDay(f, latest_ts) ==
    LET sc == TodSinCos(latest_ts)
    IN  DictSet(DictSet(f, "tod_sin", sc[1]), "tod_cos", sc[2])

\* SetCovariates with one key misspelt ("Calories(Activity)").
SetCovariatesMisspelt(f, x) ==
    LET f1 == DictSet(f, "HR", FloatOrZero(x.hr))
        f2 == DictSet(f1, "METs", FloatOrZero(x.mets))
        f3 == DictSet(f2, "Steps", FloatOrZero(x.steps))
        f4 == DictSet(f3, "Calories(Activity)", FloatOrZero(x.calories_activity))
        f5 == DictSet(f4, "Calories", FloatOrZero(x.calories))
        f6 == DictSet(f5, "Carbs", FloatOrZero(x.carbs))
        f7 == DictSet(f6, "Protein", FloatOrZero(x.protein))
        f8 == DictSet(f7, "Fat", FloatOrZero(x.fat))
        f9 == DictSet(f8, "Fiber", FloatOrZero(x.fiber))
    IN  DictSet(f9, "Amount Consumed", FloatOrZero(x.amount_consumed))

\* lines 138-149
SetCovariates(f, x) ==
    LET f1 == DictSet(f, "HR", FloatOrZero(x.hr))
        f2 == DictSet(f1, "METs", FloatOrZero(x.mets))
        f3 == DictSet(f2, "Steps", FloatOrZero(x.steps))
        f4 == DictSet(f3, "Calories (Activity)", FloatOrZero(x.calories_activity))
        f5 == DictSet(f4, "Calories", FloatOrZero(x.calories))
        f6 == DictSet(f5, "Carbs", FloatOrZero(x.carbs))
        f7 == DictSet(f6, "Protein", FloatOrZero(x.protein))
        f8 == DictSet(f7, "Fat", FloatOrZero(x.fat))
        f9 == DictSet(f8, "Fiber", FloatOrZero(x.fiber))
    IN  DictSet(f9, "Amount Consumed", FloatOrZero(x.amount_consumed))

\* lines 155-172
UsedCols(mode) ==
    IF mode = "full" THEN EXPECTED_COLS
    ELSE IF mode = "fallback" THEN UsedFallback
    ELSE UsedMin

\* lines 77-86: the n == 0 branch
BuildFeaturesEmpty(x) ==
    FeatureBuildResult("min",
                       DictSet(DefaultRow, "Meal Type", MealTypeOrUnknown(x.meal_type)),
                       UsedMin)

\* The parameters of build_features.
BuildFeaturesParams ==
    {"glucose_values", "latest_ts", "meal_type", "hr", "mets", "steps",
     "calories_activity", "calories", "carbs", "protein", "fat", "fiber",
     "amount_consumed"}

\* build_features(**x), x a record of its parameters
BuildFeatures(x) ==
    LET a == x.glucose_values
        n == Len(a)
    IN  IF n = 0 THEN BuildFeaturesEmpty(x)
        ELSE LET mode == ModeOf(n)
                 f1 == SetLags(DefaultRow, a)
                 f2 == SetRolling(f1, a)
                 f3 == SetSlopes(f2, a)
                 f4 == SetTimeOfDay(f3, x.latest_ts)
                 f5 == SetCovariates(f4, x)
                 f6 == DictSet(f5, "Meal Type", MealTypeOrUnknown(x.meal_type))
             IN  FeatureBuildResult(mode, f6, UsedCols(mode))

-----------------------------------------------------------------------------
(* The inputs build_features is applied to *)

\* The longest glucose history drawn.
MaxLen == 31

\* A history of n finite samples: a line a + b*i bent by c at two of three points.
GlucoseSeries(n, a, b, c) ==
    [i \in 1..n |-> Float(a + b * (i - 1) + c * ((i * i) % 3), 1)]

SeriesInputs ==
    {GlucoseSeries(n, a, b, c) : n \in 0..MaxLen, a \in {90, 100}, b \in {0, 5, -2}, c \in {0, 7}}

CovariateNames ==
    {"hr", "mets", "steps", "calories_activity", "calories", "carbs", "protein",
     "fat", "fiber", "amount_consumed"}

\* The optional arguments of a call in which those of present are given.
Optionals(present, meal_type, latest_ts) ==
    [latest_ts |-> latest_ts,
     meal_type |-> meal_type,
     hr |-> IF "hr" \in present THEN Float(72, 1) ELSE None,
     mets |-> IF "mets" \in present THEN Float(3, 2) ELSE None,
     steps |-> IF "steps" \in present THEN Float(1200, 1) ELSE None,
     calories_activity |-> IF "calories_activity" \in present THEN Float(55, 1) ELSE None,
     calories |-> IF "calories" \in present THEN Float(640, 1) ELSE None,
     carbs |-> IF "carbs" \in present THEN Float(81, 2) ELSE None,
     protein |-> IF "protein" \in present THEN Float(30, 1) ELSE None,
     fat |-> IF "fat" \in present THEN Float(22, 1) ELSE None,
     fiber |-> IF "fiber" \in present THEN Float(0, 1) ELSE None,
     amount_consumed |-> IF "amount_consumed" \in present THEN Float(1, 1) ELSE None]

MealTypes == {None, Str(""), Str("Lunch")}

\* 10:30:00 and 00:00:00 of some day, with and without an offset
Timestamps ==
    {None, Str(""), Str("garbage"), IsoStr(37800, TRUE), IsoStr(86400, TRUE),
     IsoStr(37800, FALSE)}

WithSeries(g, o) == [glucose_values |-> g] @@ o

\* Every history with no or every covariate, and three histories with every
\* combination of present and absent optional arguments.
FBInputs ==
    {WithSeries(g, Optionals(p, None, None)) :
        g \in SeriesInputs, p \in {{}, CovariateNames}}
    \cup
    {WithSeries(g, Optionals(p, m, ts)) :
        g \in {GlucoseSeries(n, 90, 5, 0) : n \in {0, 3, 12}},
        p \in SUBSET CovariateNames, m \in MealTypes, ts \in Timestamps}

-----------------------------------------------------------------------------
(* Specification SpecFeatures: build_features applied to one input *)

\* Path(__file__).resolve().parent of main.py: the directory the api package
\* is installed in, and the directory above it
ApiDir == "/srv/dialog/api"
ApiParent == "/srv/dialog"

RegistryIdle ==
    /\ MODEL = None /\ MEAL_OBJ = None /\ fs = {} /\ cwd = ApiDir
    /\ pc = << >> /\ arg = << >> /\ tmp = << >> /\ ret = << >> /\ calls = << >>
    /\ loads = << >>

PredictIdle == request = NoCall /\ response = NoCall

FeaturesIdle == fb_args = NoCall /\ fb_result = NoCall

CurveIdle == curve_args = NoCall /\ curve = NoCall

BaselineIdle == bs_args = NoCall /\ bs_result = NoCall

InitFeatures ==
    /\ fb_args \in FBInputs
    /\ fb_result = NoCall
    /\ RegistryIdle
    /\ PredictIdle
    /\ CurveIdle
    /\ BaselineIdle

CallBuildFeatures ==
    /\ fb_result = NoCall
    /\ fb_result' = BuildFeatures(fb_args)
    /\ UNCHANGED <<fb_args, registryVars, predictVars, curveVars, baselineVars>>

NextFeatures == CallBuildFeatures

SpecFeatures == InitFeatures /\ [][NextFeatures]_vars

Returned == fb_result # NoCall

-----------------------------------------------------------------------------
(* Properties of build_features *)

\* The fields of a feature mapping that are not floats.
NonNumeric(f) == {k \in DOMAIN f : f[k].t # "float"}

\* C4: for every history length n >= 0 and every combination of present and
\* absent optional arguments, the keys of the mapping build_features returns
\* are exactly EXPECTED_COLS, and "Meal Type" is its one non-numeric field,
\* which is "Unknown" when no meal type is given.
C4_KeySetIsSchema ==
    Returned =>
        /\ DOMAIN fb_result.features = Range(EXPECTED_COLS)
        /\ NonNumeric(fb_result.features) = {"Meal Type"}
        /\ fb_result.features["Meal Type"].t = "str"
        /\ fb_args.meal_type = None => fb_result.features["Meal Type"] = Str("Unknown")

\* A call on 12 samples with no meal type, some covariates given and some not.
C4_Witness ==
    /\ Returned
    /\ Len(fb_args.glucose_values) = 12
    /\ fb_args.meal_type = None
    /\ fb_args.hr = None /\ fb_args.carbs # None /\ fb_args.steps = None
    /\ fb_result.features["Carbs"] = Float(81, 2)

LagOffsets == {1, 2, 3, 5, 10, 15, 30}

LagKey(L) ==
    CASE L = 1 -> "gl_lag_1" [] L = 2 -> "gl_lag_2" [] L = 3 -> "gl_lag_3"
      [] L = 5 -> "gl_lag_5" [] L = 10 -> "gl_lag_10" [] L = 15 -> "gl_lag_15"
      [] L = 30 -> "gl_lag_30"

\* C8: for every lag offset L and every series of length n, gl_lag_L is 0.0
\* when n <= L and otherwise the sample L positions before the most recent
\* one; for [90, 95, 100], gl_lag_1 = 95.
C8_LagIsSampleLBack ==
    Returned =>
        LET g == fb_args.glucose_values
            n == Len(g)
        IN  /\ \A L \in LagOffsets :
                   fb_result.features[LagKey(L)] = IF n <= L THEN Float(0, 1) ELSE g[n - L]
            /\ g = <<Float(90, 1), Float(95, 1), Float(100, 1)>>
                   => fb_result.features["gl_lag_1"] = Float(95, 1)

\* A history of 31 samples: gl_lag_30 is its first sample, and the lags differ.
C8_Witness ==
    /\ Returned
    /\ Len(fb_args.glucose_values) = 31
    /\ fb_args.glucose_values[1] = Float(90, 1)
    /\ fb_result.features["gl_lag_30"] = Float(90, 1)
    /\ fb_result.features["gl_lag_1"] # fb_result.features["gl_lag_2"]

RECURSIVE SumOver(_, _, _)
SumOver(F(_), lo, hi) == IF lo > hi THEN 0 ELSE F(lo) + SumOver(F, lo + 1, hi)

\* The ordinary least-squares slope of y[1..m] against the indices 0..m-1, m >= 2.
OLSSlope(y) ==
    LET m == Len(y)
        X(i) == i - 1
        Y(i) == y[i].num
        XY(i) == X(i) * Y(i)
        XX(i) == X(i) * X(i)
        sx == SumOver(X, 1, m)
        sy == SumOver(Y, 1, m)
    IN  Float(m * SumOver(XY, 1, m) - sx * sy, m * SumOver(XX, 1, m) - sx * sx)

SlopeKey(k) == CASE k = 5 -> "gl_slope_5" [] k = 15 -> "gl_slope_15"

\* C9: for each slope window k in {5, 15}, gl_slope_k is the least-squares
\* slope of value against index over the trailing window, and is the default
\* 0.0 only when fewer than 2 points are available: with 2 <= n < k points
\* it is the least-squares slope of the n points there are.
C9_SlopeIsLeastSquares ==
    Returned =>
        LET g == fb_args.glucose_values
            n == Len(g)
        IN  \A k \in {5, 15} :
                fb_result.features[SlopeKey(k)] =
                    IF n < 2 THEN Float(0, 1) ELSE OLSSlope(PyTail(g, k))

\* What the code does: the slope is 0.0 whenever n < k.
SlopeAsCoded ==
    Returned =>
        LET g == fb_args.glucose_values
            n == Len(g)
        IN  \A k \in {5, 15} :
                fb_result.features[SlopeKey(k)] =
                    IF n < k THEN Float(0, 1) ELSE OLSSlope(PyTail(g, k))

-----------------------------------------------------------------------------
(* services/model_service.py and load_meal_model of                        *)
(* services/meal_response_service.py                                       *)
(*                                                                         *)
(* The endpoints are synchronous functions, which the server runs on a     *)
(* pool of worker threads: calls of load_model and load_meal_model         *)
(* interleave wherever the interpreter may switch threads, in particular   *)
(* around the file check and the read of the artifact.  There is no lock   *)
(* in either function.  A step below is one such uninterrupted piece, named *)
(* by the module (ms, mr) and the line it executes.                        *)

\* MODEL_PATHS of main.py
MODEL_PATHS ==
    (30 :> "models/ridge_pipe_global_delta_h30_scaled.joblib") @@
    (60 :> "models/ridge_pipe_global_delta_h60_scaled.joblib") @@
    (120 :> "models/ridge_pipe_global_delta_h120_scaled.joblib")

DEFAULT_HORIZON_MIN == 30

\* MEAL_MODEL_PATH of main.py: absolute, under the directory of main.py
MEAL_MODEL_PATH == ApiDir \o "/models/meal_response_rf.joblib"

\* The paths the functions are called with.
Paths == {MODEL_PATHS[h] : h \in DOMAIN MODEL_PATHS} \cup {MEAL_MODEL_PATH}

\* os.path.isabs(path)
IsAbs(path) == SubSeq(path, 1, 1) = "/"

\* The file that path names to a process working in directory dir.
ResolveFrom(dir, path) == IF IsAbs(path) THEN path ELSE dir \o "/" \o path

Resolve(path) == ResolveFrom(cwd, path)

\* os.path.exists(path), and whether open(path) finds a file
Exists(path) == Resolve(path) \in fs

\* The model files an installation may hold: those of models/ under ApiDir.
Files == {ResolveFrom(ApiDir, path) : path \in Paths}

\* The directories the server may be started from.
WorkingDirs == {ApiDir, ApiParent}

\* The worker threads, and the calls each makes.
NCallers == 2
MaxCalls == 2

Callers == 1..NCallers

RECURSIVE TotalOver(_, _)
TotalOver(f, S) ==
    IF S = {} THEN 0 ELSE LET x == CHOOSE x \in S : TRUE IN f[x] + TotalOver(f, S \ {x})

\* joblib.load(path): a new object each time, told apart by id.
JoblibLoad(path) == [t |-> "model", path |-> path, id |-> 1 + TotalOver(loads, Paths)]

\* raise exc(msg): str(e) of the exception is msg
Raised(exc, msg) == [t |-> "raise", exc |-> exc, msg |-> msg]

\* line 13 of model_service.py: f"Model not found at: {model_path}"
ModelNotFound(path) == Raised("FileNotFoundError", "Model not found at: " \o path)

\* what open() inside joblib.load raises for a path that is not there
NoSuchFile(path) ==
    Raised("FileNotFoundError", "[Errno 2] No such file or directory: '" \o path \o "'")

IsHandle(v) == v.t = "model"

InitRegistry ==
    /\ MODEL = None
    /\ MEAL_OBJ = None
    /\ fs \in SUBSET Files
    /\ cwd \in WorkingDirs
    /\ pc = [t \in Callers |-> "idle"]
    /\ arg = [t \in Callers |-> ""]
    /\ tmp = [t \in Callers |-> None]
    /\ ret = [t \in Callers |-> NoCall]
    /\ calls = [t \in Callers |-> 0]
    /\ loads = [p \in Paths |-> 0]
    /\ FeaturesIdle
    /\ PredictIdle
    /\ CurveIdle
    /\ BaselineIdle

\* A thread enters load_model(MODEL_PATHS[h]).
CallLoadModel(t, h) ==
    /\ pc[t] = "idle"
    /\ calls[t] < MaxCalls
    /\ calls' = [calls EXCEPT ![t] = @ + 1]
    /\ arg' = [arg EXCEPT ![t] = MODEL_PATHS[h]]
    /\ tmp' = [tmp EXCEPT ![t] = None]
    /\ ret' = [ret EXCEPT ![t] = NoCall]
    /\ pc' = [pc EXCEPT ![t] = "ms11"]
    /\ UNCHANGED <<MODEL, MEAL_OBJ, fs, cwd, loads>>
    /\ UNCHANGED <<featureVars, predictVars, curveVars, baselineVars>>

\* line 11: if _MODEL is None
LoadModelTest(t) ==
    /\ pc[t] = "ms11"
    /\ pc' = [pc EXCEPT ![t] = IF MODEL = None THEN "ms12" ELSE "ms15"]
    /\ UNCHANGED <<MODEL, MEAL_OBJ, fs, cwd, arg, tmp, ret, calls, loads>>
    /\ UNCHANGED <<featureVars, predictVars, curveVars, baselineVars>>

\* lines 12-13: if not os.path.exists(model_path): raise FileNotFoundError
LoadModelExists(t) ==
    /\ pc[t] = "ms12"
    /\ IF ~Exists(arg[t])
       THEN /\ ret' = [ret EXCEPT ![t] = ModelNotFound(arg[t])]
            /\ pc' = [pc EXCEPT ![t] = "idle"]
       ELSE /\ pc' = [pc EXCEPT ![t] = "ms14"]
            /\ UNCHANGED ret
    /\ UNCHANGED <<MODEL, MEAL_OBJ, fs, cwd, arg, tmp, calls, loads>>
    /\ UNCHANGED <<featureVars, predictVars, curveVars, baselineVars>>

\* line 14, the right-hand side: joblib.load(model_path)
LoadModelRead(t) ==
    /\ pc[t] = "ms14"
    /\ tmp' = [tmp EXCEPT ![t] = JoblibLoad(arg[t])]
    /\ loads' = [loads EXCEPT ![arg[t]] = @ + 1]
    /\ pc' = [pc EXCEPT ![t] = "ms14store"]
    /\ UNCHANGED <<MODEL, MEAL_OBJ, fs, cwd, arg, ret, calls>>
    /\ UNCHANGED <<featureVars, predictVars, curveVars, baselineVars>>

\* line 14, the assignment: _MODEL = <the object read>
LoadModelStore(t) ==
    /\ pc[t] = "ms14store"
    /\ MODEL' = tmp[t]
    /\ pc' = [pc EXCEPT ![t] = "ms15"]
    /\ UNCHANGED <<MEAL_OBJ, fs, cwd, arg, tmp, ret, calls, loads>>
    /\ UNCHANGED <<featureVars, predictVars, curveVars, baselineVars>>

\* line 15: return _MODEL
LoadModelReturn(t) ==
    /\ pc[t] = "ms15"
    /\ ret' = [ret EXCEPT ![t] = MODEL]
    /\ pc' = [pc EXCEPT ![t] = "idle"]
    /\ UNCHANGED <<MODEL, MEAL_OBJ, fs, cwd, arg, tmp, calls, loads>>
    /\ UNCHANGED <<featureVars, predictVars, curveVars, baselineVars>>

\* A thread enters load_meal_model(MEAL_MODEL_PATH), as predict_meal_response does.
CallLoadMealModel(t) ==
    /\ pc[t] = "idle"
    /\ calls[t] < MaxCalls
    /\ calls' = [calls EXCEPT ![t] = @ + 1]
    /\ arg' = [arg EXCEPT ![t] = MEAL_MODEL_PATH]
    /\ tmp' = [tmp EXCEPT ![t] = None]
    /\ ret' = [ret EXCEPT ![t] = NoCall]
    /\ pc' = [pc EXCEPT ![t] = "mr22"]
    /\ UNCHANGED <<MODEL, MEAL_OBJ, fs, cwd, loads>>
    /\ UNCHANGED <<featureVars, predictVars, curveVars, baselineVars>>

\* line 22: if _MEAL_OBJ is not None (lines 25-26 are skipped: a path is given)
LoadMealTest(t) ==
    /\ pc[t] = "mr22"
    /\ pc' = [pc EXCEPT ![t] = IF MEAL_OBJ # None THEN "mr23" ELSE "mr28"]
    /\ UNCHANGED <<MODEL, MEAL_OBJ, fs, cwd, arg, tmp, ret, calls, loads>>
    /\ UNCHANGED <<featureVars, predictVars, curveVars, baselineVars>>

\* line 23: return _MEAL_OBJ
LoadMealReturnCached(t) ==
    /\ pc[t] = "mr23"
    /\ ret' = [ret EXCEPT ![t] = MEAL_OBJ]
    /\ pc' = [pc EXCEPT ![t] = "idle"]
    /\ UNCHANGED <<MODEL, MEAL_OBJ, fs, cwd, arg, tmp, calls, loads>>
    /\ UNCHANGED <<featureVars, predictVars, curveVars, baselineVars>>

\* line 28, the right-hand side: joblib.load(model_path), which raises
\* FileNotFoundError itself when the file is not there
LoadMealRead(t) ==
    /\ pc[t] = "mr28"
    /\ IF ~Exists(arg[t])
       THEN /\ ret' = [ret EXCEPT ![t] = NoSuchFile(arg[t])]
            /\ pc' = [pc EXCEPT ![t] = "idle"]
            /\ UNCHANGED <<tmp, loads>>
       ELSE /\ tmp' = [tmp EXCEPT ![t] = JoblibLoad(arg[t])]
            /\ loads' = [loads EXCEPT ![arg[t]] = @ + 1]
            /\ pc' = [pc EXCEPT ![t] = "mr28store"]
            /\ UNCHANGED ret
    /\ UNCHANGED <<MODEL, MEAL_OBJ, fs, cwd, arg, calls>>
    /\ UNCHANGED <<featureVars, predictVars, curveVars, baselineVars>>

\* line 28, the assignment: _MEAL_OBJ = <the object read>
LoadMealStore(t) ==
    /\ pc[t] = "mr28store"
    /\ MEAL_OBJ' = tmp[t]
    /\ pc' = [pc EXCEPT ![t] = "mr29"]
    /\ UNCHANGED <<MODEL, fs, cwd, arg, tmp, ret, calls, loads>>
    /\ UNCHANGED <<featureVars, predictVars, curveVars, baselineVars>>

\* line 29: return _MEAL_OBJ
LoadMealReturn(t) ==
    /\ pc[t] = "mr29"
    /\ ret' = [ret EXCEPT ![t] = MEAL_OBJ]
    /\ pc' = [pc EXCEPT ![t] = "idle"]
    /\ UNCHANGED <<MODEL, MEAL_OBJ, fs, cwd, arg, tmp, calls, loads>>
    /\ UNCHANGED <<featureVars, predictVars, curveVars, baselineVars>>

NextRegistry ==
    \E t \in Callers :
        \/ \E h \in DOMAIN MODEL_PATHS : CallLoadModel(t, h)
        \/ LoadModelTest(t)
        \/ LoadModelExists(t)
        \/ LoadModelRead(t)
        \/ LoadModelStore(t)
        \/ LoadModelReturn(t)
        \/ CallLoadMealModel(t)
        \/ LoadMealTest(t)
        \/ LoadMealReturnCached(t)
        \/ LoadMealRead(t)
        \/ LoadMealStore(t)
        \/ LoadMealReturn(t)

SpecRegistry == InitRegistry /\ [][NextRegistry]_vars

\* Thread t has finished a call.
Finished(t) == pc[t] = "idle" /\ ret[t] # NoCall

ModelPaths == {MODEL_PATHS[h] : h \in DOMAIN MODEL_PATHS}

\* C1: when N >= 2 callers call load_model with the same path p, an
\* existing file, while the cache is empty, joblib.load runs exactly once in
\* every interleaving and the N callers all receive the one cached object.
C1_OneLoadForConcurrentCallers ==
    \A p \in {q \in ModelPaths : Exists(q)} :
        (\A t \in Callers : Finished(t) /\ calls[t] = 1 /\ arg[t] = p)
            => /\ loads[p] = 1
               /\ \A t \in Callers : ret[t] = MODEL

\* C2: a successful load_model(p) returns the object that was loaded from
\* path p, never the object of another path.
C2_HandleIsOfItsPath ==
    \A t \in Callers :
        (Finished(t) /\ arg[t] \in ModelPaths /\ IsHandle(ret[t])) => ret[t].path = arg[t]

\* C5: load_model(path) (and load_meal_model) fails with a not-found error
\* whenever path does not exist and no handle for that path is cached,
\* whatever paths were resolved before.
C5_NotFoundWhenMissing ==
    \A t \in Callers :
        (Finished(t) /\ ~Exists(arg[t])) =>
            (ret[t].t = "raise" /\ ret[t].exc = "FileNotFoundError")

-----------------------------------------------------------------------------
(* main.py: POST /predict *)

\* A GlucosePoint: ts an Optional[str], value a float (pydantic requires it).
GlucosePoint(ts, value) == [ts |-> ts, value |-> value]

\* parse_ts: the datetime of an ISO string, None for anything else.
ParseTs(s) ==
    IF ~Truthy(s) THEN None
    ELSE IF IsIso(s) THEN [t |-> "datetime", min |-> FALSE, sec |-> s.sec, aware |-> s.aware]
    ELSE None

\* datetime.min.replace(tzinfo=timezone.utc)
MinAware == [t |-> "datetime", min |-> TRUE, sec |-> 0, aware |-> TRUE]

\* The sort key of line 174: parse_ts(p.ts) or min_aware
SortKey(p) == IF ParseTs(p.ts) # None THEN ParseTs(p.ts) ELSE MinAware

\* a < b on two datetimes that are both aware or both naive
DatetimeLess(a, b) == (a.min /\ ~b.min) \/ (~a.min /\ ~b.min /\ a.sec < b.sec)

\* list.sort compares an offset-naive with an offset-aware key, which raises
\* TypeError, exactly when the list holds keys of both kinds.
SortRaises(points) ==
    \E i, j \in DOMAIN points : SortKey(points[i]).aware /\ ~SortKey(points[j]).aware

\* s with p put after the last element whose key is not greater (s is sorted)
RECURSIVE InsertByKey(_, _)
InsertByKey(s, p) ==
    IF s = << >> THEN <<p>>
    ELSE IF DatetimeLess(SortKey(p), SortKey(s[Len(s)]))
         THEN Append(InsertByKey(SubSeq(s, 1, Len(s) - 1), p), s[Len(s)])
         ELSE Append(s, p)

\* points.sort(key=...): stable
RECURSIVE SortedTo(_, _)
SortedTo(points, i) == IF i = 0 THEN << >> ELSE InsertByKey(SortedTo(points, i - 1), points[i])

SortPoints(points) == SortedTo(points, Len(points))

\* confidence_label
ConfidenceLabel(mode, n) ==
    IF mode = "fallback" \/ n < 10 THEN "low"
    ELSE IF n < 20 THEN "medium"
    ELSE "high"

\* a + b on floats that are rational or NaN
FAdd(a, b) ==
    IF IsNaN(a) \/ IsNaN(b) THEN NaN
    ELSE Float(a.num * b.den + b.num * a.den, a.den * b.den)

\* The keyword arguments of the call at lines 186-201.
PredictCallKwargs ==
    {"glucose_values", "latest_ts", "timestamps", "meal_type", "hr", "mets", "steps",
     "calories_activity", "calories", "carbs", "protein", "fat", "fiber",
     "amount_consumed"}

\* The attributes of fb that lines 208-223 read with fb.<name>.
PredictReadsOfResult == {"features", "mode", "mode_reason"}

\* load_model run by one thread without interruption, from cache state m:
\* what it returns or raises, and the cache after it.
LoadModelAlone(m, path) ==
    IF m = None
    THEN IF ~Exists(path)
         THEN [ret |-> ModelNotFound(path), MODEL |-> m]
         ELSE [ret |-> JoblibLoad(path), MODEL |-> JoblibLoad(path)]
    ELSE [ret |-> m, MODEL |-> m]

\* raise HTTPException(status_code, detail), before anything is loaded
HttpError(status, detail) ==
    [t |-> "response", status |-> status, detail |-> detail, at |-> "handler",
     raised |-> "HTTPException", body |-> None, MODEL |-> MODEL]

\* An exception that leaves the handler: the server answers 500.
Uncaught(exc, at, m) ==
    [t |-> "response", status |-> 500, detail |-> "Internal Server Error", at |-> at,
     raised |-> exc, body |-> None, MODEL |-> m]

\* lines 209-210: an exception e of load_model or of the model's predict;
\* detail is f"Prediction failed: {str(e)}"
PredictionFailed(e, at, m) ==
    [t |-> "response", status |-> 500, detail |-> "Prediction failed: " \o e.msg, at |-> at,
     raised |-> "HTTPException", body |-> None, MODEL |-> m]

\* lines 212-231
PredictBody(req, values, fb, yhat) ==
    LET last_val == values[Len(values)]
    IN  [horizon_min |-> req.horizon_min,
         mode |-> fb.mode,
         mode_reason |-> fb.mode_reason,
         n |-> Len(values),
         prediction |-> yhat,
         last_glucose |-> last_val,
         confidence |-> ConfidenceLabel(fb.mode, Len(values)),
         features_used |-> fb.features,
         features_used_cols |-> fb.features_used_cols,
         delta |-> yhat,
         predicted_glucose |-> FAdd(last_val, yhat),
         model_output |-> "delta"]

\* lines 203-231, after build_features has returned fb
PredictDispatch(req, values, fb, out) ==
    IF req.horizon_min \notin DOMAIN MODEL_PATHS
    THEN HttpError(400, "horizon_min must be one of 30, 60, 120")
    ELSE LET l == LoadModelAlone(MODEL, MODEL_PATHS[req.horizon_min])
         IN  IF ~IsHandle(l.ret) THEN PredictionFailed(l.ret, "load_model", l.MODEL)
             ELSE IF "features" \notin FeatureBuildResultFields
                  THEN PredictionFailed(
                           Raised("AttributeError",
                                  "'FeatureBuildResult' object has no attribute 'features'"),
                           "fb.features", l.MODEL)
             ELSE IF ~out.ok THEN PredictionFailed(out.e, "predict_from_features", l.MODEL)
             ELSE IF ~(PredictReadsOfResult \subseteq FeatureBuildResultFields)
                  THEN Uncaught("AttributeError", "fb.mode_reason", l.MODEL)
             ELSE [t |-> "response", status |-> 200, detail |-> "", at |-> "",
                   raised |-> "", body |-> PredictBody(req, values, fb, out.yhat),
                   MODEL |-> l.MODEL]

\* predict(req, horizon_min); out is what the model's predict would do.
PredictHandler(req, out) ==
    IF Len(req.glucose) = 0 THEN HttpError(400, "glucose list is empty")
    ELSE LET filtered == SelectSeq(req.glucose, LAMBDA p : p.value # None)
         IN  IF Len(filtered) = 0
             THEN HttpError(400, "glucose points have no numeric values")
             ELSE IF SortRaises(filtered) THEN Uncaught("TypeError", "sort", MODEL)
             ELSE LET points == SortPoints(filtered)
                      values == [i \in DOMAIN points |-> PyFloat(points[i].value)]
                      latest_ts == points[Len(points)].ts
                  IN  IF ~(PredictCallKwargs \subseteq BuildFeaturesParams)
                      THEN Uncaught("TypeError", "build_features", MODEL)
                      ELSE PredictDispatch(
                               req, values,
                               BuildFeatures([req.optional EXCEPT !.latest_ts = latest_ts]
                                             @@ [glucose_values |-> values]),
                               out)

-----------------------------------------------------------------------------
(* Specification SpecPredict: one /predict request, handled start to end *)

PointTs(mode, i, n) ==
    CASE mode = "none" -> None
      [] mode = "ascending" -> IsoStr(300 * i, TRUE)
      [] mode = "descending" -> IsoStr(300 * (n - i), TRUE)
      [] mode = "naive" -> IsoStr(300 * i, FALSE)
      [] mode = "mixed" -> IF i = 1 THEN IsoStr(300, FALSE) ELSE Str("garbage")

TsModes == {"none", "ascending", "descending", "naive", "mixed"}

PointsOf(series, mode) ==
    [i \in DOMAIN series |-> GlucosePoint(PointTs(mode, i, Len(series)), series[i])]

\* Lists whose values are NaN, all or in part (JSON bodies may carry NaN).
NaNSeries == {<<NaN>>, <<NaN, NaN>>, <<Float(90, 1), NaN>>}

GlucoseLists ==
    {PointsOf(GlucoseSeries(n, 90, 5, 0), m) : n \in 0..MaxLen, m \in TsModes}
    \cup {PointsOf(g, m) : g \in NaNSeries, m \in {"none", "ascending"}}

Horizons == {30, 60, 120, 45}

PredictRequests ==
    {[glucose |-> g, horizon_min |-> h, optional |-> Optionals(p, m, None)] :
        g \in GlucoseLists, h \in Horizons,
        p \in {{}, CovariateNames}, m \in {None}}
    \cup
    {[glucose |-> g, horizon_min |-> DEFAULT_HORIZON_MIN,
      optional |-> Optionals({"carbs"}, Str("Lunch"), None)] : g \in GlucoseLists}

\* What model.predict does with the row: a delta, or an exception.
ModelOutcomes ==
    {[ok |-> TRUE, yhat |-> Float(d, 1)] : d \in {-12, 0, 7}}
    \cup {[ok |-> FALSE, yhat |-> NaN, e |-> Raised("RuntimeError", "model.predict failed")]}

InitPredict ==
    /\ request \in PredictRequests
    /\ response = NoCall
    /\ MODEL = None
    /\ MEAL_OBJ = None
    /\ cwd = ApiDir
    /\ fs \in {{}, {Resolve(MODEL_PATHS[DEFAULT_HORIZON_MIN])},
              {Resolve(q) : q \in ModelPaths}}
    /\ pc = << >> /\ arg = << >> /\ tmp = << >> /\ ret = << >> /\ calls = << >>
    /\ loads = [p \in Paths |-> 0]
    /\ FeaturesIdle
    /\ CurveIdle
    /\ BaselineIdle

HandlePredict ==
    /\ response = NoCall
    /\ \E out \in ModelOutcomes :
           LET r == PredictHandler(request, out)
           IN  /\ response' = r
               /\ MODEL' = r.MODEL
               /\ loads' = IF r.MODEL # MODEL
                           THEN [loads EXCEPT ![r.MODEL.path] = @ + 1]
                           ELSE loads
    /\ UNCHANGED <<request, MEAL_OBJ, fs, cwd, pc, arg, tmp, ret, calls, featureVars,
                   curveVars, baselineVars>>

NextPredict == HandlePredict

SpecPredict == InitPredict /\ [][NextPredict]_vars

Answered == response # NoCall

AllNaN(points) == Len(points) > 0 /\ \A i \in DOMAIN points : IsNaN(points[i].value)

\* C3: a /predict request with at least one glucose point and horizon_min in
\* {30, 60, 120} never fails in the feature-building step: neither the call
\* of build_features nor the reads of its result's fields raise, whatever
\* the history length and the covariates given.
C3_FeatureStepNeverRaises ==
    (/\ Answered
     /\ Len(request.glucose) >= 1
     /\ request.horizon_min \in DOMAIN MODEL_PATHS
     /\ ~SortRaises(request.glucose))
        => response.at \notin {"build_features", "fb.features", "fb.mode_reason"}

\* C6: a request whose glucose list is empty is rejected with a 400 before
\* any feature building or model load, and a request whose values are all
\* NaN is rejected in the same way.
C6_EmptyAndAllNaNRejected ==
    Answered =>
        /\ Len(request.glucose) = 0
               => response.status = 400 /\ response.at = "handler" /\ response.MODEL = None
        /\ AllNaN(request.glucose)
               => response.status = 400 /\ response.at = "handler" /\ response.MODEL = None

\* C7: the mode is decided by the history length n alone (full iff n >= 30,
\* fallback iff 10 <= n < 30, min iff n < 10), and the /predict response
\* reports that mode: a request that passes validation, whose model file is
\* there and whose model predicts, is answered with mode = that mode.
C7_ResponseReportsMode ==
    (/\ Answered
     /\ Len(request.glucose) >= 1
     /\ ~SortRaises(request.glucose)
     /\ request.horizon_min \in DOMAIN MODEL_PATHS
     /\ Exists(MODEL_PATHS[request.horizon_min])
     /\ response.at # "predict_from_features")
        => /\ response.status = 200
           /\ LET n == Len(request.glucose)
              IN  response.body.mode =
                      IF n >= 30 THEN "full" ELSE IF n >= 10 THEN "fallback" ELSE "min"

\* The first half of C7, on build_features itself: it holds.
ModeByLengthAlone ==
    Returned =>
        LET n == Len(fb_args.glucose_values)
        IN  /\ fb_result.mode = "full" <=> n >= 30
            /\ fb_result.mode = "fallback" <=> (10 <= n /\ n < 30)
            /\ fb_result.mode = "min" <=> n < 10

-----------------------------------------------------------------------------
(* The meal-response curve synthesizer.  predict_meal_response of          *)
(* services/meal_response_service.py returns the predicted parameters      *)
(* without a curve; the curve variant is written here as the design        *)
(* describes it (three phases over the clamped t_peak).  A point of the    *)
(* rising phase is kept as fn = "rise", peak * x^1.6, and a point of the   *)
(* decay as fn = "decay", peak * exp(-x), x a rational float.              *)

HORIZON_MIN == 120
STEP_MIN == 5

FLess(a, b) == a.num * b.den < b.num * a.den
FLeq(a, b) == a.num * b.den <= b.num * a.den
FMul(a, b) == Float(a.num * b.num, a.den * b.den)
FSub(a, b) == Float(a.num * b.den - b.num * a.den, a.den * b.den)
FAbs(a) == Float(Abs(a.num), a.den)

Clamp(x, lo, hi) == IF FLess(x, lo) THEN lo ELSE IF FLess(hi, x) THEN hi ELSE x

\* peak * x^1.6 for 0 <= x <= 1
Rise(peak, x) ==
    IF x.num = 0 \/ peak.num = 0 THEN Float(0, 1)
    ELSE IF x = Float(1, 1) THEN peak
    ELSE [t |-> "float", fn |-> "rise", peak |-> peak, x |-> x]

\* peak * exp(-x) for x >= 0
Decay(peak, x) ==
    IF peak.num = 0 THEN Float(0, 1)
    ELSE IF x.num = 0 THEN peak
    ELSE [t |-> "float", fn |-> "decay", peak |-> peak, x |-> x]

\* baseline + delta
Plus(baseline, delta) ==
    IF delta.fn = "rat" THEN FAdd(baseline, delta)
    ELSE [t |-> "float", fn |-> "sum", a |-> baseline, b |-> delta]

\* CurveDelta whose plateau lasts 10 minutes.
CurveDeltaShortPlateau(delta_peak, t_peak, decay_slope, tm) ==
    LET tp == Clamp(t_peak, Float(20, 1), Float(200, 1))
        tail == FAdd(tp, Float(10, 1))
        k == Clamp(FAbs(decay_slope), Float(5, 100), Float(15, 10))
        tf == Float(tm, 1)
    IN  IF FLeq(tf, tp) THEN Rise(delta_peak, FDiv(tf, tp))
        ELSE IF FLeq(tf, tail) THEN delta_peak
        ELSE Decay(delta_peak, FDiv(FMul(k, FSub(tf, tail)), Float(60, 1)))

\* delta(t) of the three phases
CurveDelta(delta_peak, t_peak, decay_slope, tm) ==
    LET tp == Clamp(t_peak, Float(20, 1), Float(200, 1))
        tail == FAdd(tp, Float(15, 1))
        k == Clamp(FAbs(decay_slope), Float(5, 100), Float(15, 10))
        tf == Float(tm, 1)
    IN  IF FLeq(tf, tp) THEN Rise(delta_peak, FDiv(tf, tp))
        ELSE IF FLeq(tf, tail) THEN delta_peak
        ELSE Decay(delta_peak, FDiv(FMul(k, FSub(tf, tail)), Float(60, 1)))

\* synthesize_curve(deltaPeak, tPeak, decaySlope, baseline)
SynthesizeCurve(x) ==
    [i \in 1..(HORIZON_MIN \div STEP_MIN + 1) |->
        LET tm == STEP_MIN * (i - 1)
            d == CurveDelta(x.delta_peak, x.t_peak, x.decay_slope, tm)
        IN  [t_min |-> tm, delta |-> d, absolute_glucose |-> Plus(x.baseline, d)]]

-----------------------------------------------------------------------------
(* Specification SpecCurve: the synthesizer applied to one parameter tuple *)

CurveInputs ==
    [delta_peak : {Float(40, 1), Float(-25, 1), Float(0, 1), Float(7, 2)},
     t_peak : {Float(10, 1), Float(20, 1), Float(95, 2), Float(60, 1), Float(100, 1),
               Float(250, 1)},
     decay_slope : {Float(0, 1), Float(3, 10), Float(-1, 2), Float(2, 1), Float(1, 100)},
     baseline : {Float(110, 1), Float(171, 2)}]

InitCurve ==
    /\ curve_args \in CurveInputs
    /\ curve = NoCall
    /\ RegistryIdle
    /\ PredictIdle
    /\ FeaturesIdle
    /\ BaselineIdle

CallSynthesizeCurve ==
    /\ curve = NoCall
    /\ curve' = SynthesizeCurve(curve_args)
    /\ UNCHANGED <<curve_args, registryVars, predictVars, featureVars, baselineVars>>

NextCurve == CallSynthesizeCurve

SpecCurve == InitCurve /\ [][NextCurve]_vars

Synthesized == curve # NoCall

\* The sign of a delta: exp and the power of a positive number are positive.
SignOf(d) ==
    LET n == IF d.fn = "rat" THEN d.num ELSE d.peak.num
    IN  IF n > 0 THEN 1 ELSE IF n < 0 THEN -1 ELSE 0

\* |u| < |v| for two deltas that are rational, or decays of one peak:
\* exp(-x) falls strictly as x grows.
MagnitudeLess(u, v) ==
    IF u.fn = "rat" /\ v.fn = "rat" THEN FLess(FAbs(u), FAbs(v))
    ELSE IF u.fn = "decay" /\ v.fn = "rat"
         THEN u.peak = v \/ FLess(FAbs(u.peak), FAbs(v))
    ELSE u.fn = "decay" /\ v.fn = "decay" /\ u.peak = v.peak /\ FLess(v.x, u.x)

ClampedPeakTime == Clamp(curve_args.t_peak, Float(20, 1), Float(200, 1))

PlateauEnd == FAdd(ClampedPeakTime, Float(15, 1))

\* One point for every t in 0, 5, ..., 120, ascending; delta(0) = 0; delta(t)
\* = delta_peak from the clamped t_peak to 15 minutes after it; and
\* absolute_glucose = baseline + delta(t) at every point.
CurveShape ==
    /\ Len(curve) = 25
    /\ \A i \in DOMAIN curve : curve[i].t_min = 5 * (i - 1)
    /\ curve[1].delta = Float(0, 1)
    /\ \A i \in DOMAIN curve :
           (FLeq(ClampedPeakTime, Float(curve[i].t_min, 1))
            /\ FLeq(Float(curve[i].t_min, 1), PlateauEnd))
               => curve[i].delta = curve_args.delta_peak
    /\ \A i \in DOMAIN curve :
           curve[i].absolute_glucose =
               IF curve[i].delta.fn = "rat"
               THEN Float(curve_args.baseline.num * curve[i].delta.den
                            + curve[i].delta.num * curve_args.baseline.den,
                          curve_args.baseline.den * curve[i].delta.den)
               ELSE [t |-> "float", fn |-> "sum", a |-> curve_args.baseline,
                     b |-> curve[i].delta]

\* After the plateau, delta strictly falls in magnitude from point to point
\* and keeps the sign of delta_peak.
DecayStrict ==
    \A i, j \in DOMAIN curve :
        (FLess(PlateauEnd, Float(curve[i].t_min, 1)) /\ i < j)
            => /\ MagnitudeLess(curve[j].delta, curve[i].delta)
               /\ SignOf(curve[j].delta) = SignOf(curve[i].delta)
               /\ SignOf(curve[i].delta) = SignOf(curve_args.delta_peak)

\* C10 as stated: the Curve has one point for every t in 0, 5, ..., 120 in
\* ascending order, delta(0) = 0, delta(t) = delta_peak on the plateau,
\* delta(t) strictly decreasing in magnitude and of one sign after it, and
\* absolute_glucose = baseline_glucose + delta(t), for every parameter tuple.
C10_CurveAsClaimed == Synthesized => CurveShape /\ DecayStrict

\* C10 amended: the same, with the strict decrease after the plateau claimed
\* only when delta_peak # 0; when delta_peak = 0 every delta is 0.
C10_CurveAmended ==
    Synthesized =>
        /\ CurveShape
        /\ curve_args.delta_peak.num # 0 => DecayStrict
        /\ curve_args.delta_peak.num = 0
               => \A i \in DOMAIN curve : curve[i].delta = Float(0, 1)

\* The curve of delta_peak = 40, t_peak = 60, decay_slope = 0.3, baseline = 110:
\* delta(60) = delta(75) = 40, and the points from t = 80 on decay.
C10_Witness ==
    /\ Synthesized
    /\ curve_args = [delta_peak |-> Float(40, 1), t_peak |-> Float(60, 1),
                     decay_slope |-> Float(3, 10), baseline |-> Float(110, 1)]
    /\ curve[1].delta = Float(0, 1)
    /\ curve[13].delta = Float(40, 1)
    /\ curve[16].delta = Float(40, 1)
    /\ curve[16].absolute_glucose = Float(150, 1)
    /\ curve[17].delta.fn = "decay"
    /\ curve[17].delta.x = Float(1, 40)
    /\ MagnitudeLess(curve[25].delta, curve[17].delta)

-----------------------------------------------------------------------------
(* services/meal_response_service.py: _baseline_and_slope *)

\* pd.to_numeric(pd.Series(a), errors="coerce").dropna(): the samples that are numbers
RECURSIVE DropNa(_)
DropNa(a) ==
    IF a = << >> THEN << >>
    ELSE IF IsNaN(Head(a)) THEN DropNa(Tail(a))
    ELSE <<Head(a)>> \o DropNa(Tail(a))

NaT == [t |-> "NaT"]

\* pd.to_datetime(..., errors="coerce") of one entry: a Timestamp, or NaT for
\* a string that is not a time
ToDatetime(s) == IF IsIso(s) THEN [t |-> "Timestamp", sec |-> s.sec] ELSE NaT

\* ok = ts.notna(): the positions whose timestamp parsed
NotNa(timestamps) == {i \in DOMAIN timestamps : ToDatetime(timestamps[i]) # NaT}

\* a[keep] for a boolean mask: the elements at the positions of keep, from i on
RECURSIVE Masked(_, _, _)
Masked(a, keep, i) ==
    IF i > Len(a) THEN << >>
    ELSE (IF i \in keep THEN <<a[i]>> ELSE << >>) \o Masked(a, keep, i + 1)

\* A Python list of the items of a sequence.
List(items) == [t |-> "list", items |-> items]

\* truthiness of an Optional[List[str]]: None and [] are falsy
TruthyList(l) == l.t = "list" /\ l.items # << >>

\* w_mask of line 60 on ts in seconds: within baseline_minutes before the last
\* timestamp, the last timestamp itself excluded
WindowIdx(ts, baseline_minutes) ==
    LET t_last == ts[Len(ts)]
    IN  {i \in DOMAIN ts : ts[i] >= t_last - 60 * baseline_minutes /\ ts[i] < t_last}

\* np.polyfit(x / unit, y, 1)[0] for integer x that are not all equal: the
\* least-squares slope of y against x / unit
PolyfitSlope(x, unit, y) ==
    LET m == Len(y)
        X(i) == x[i]
        Y(i) == y[i].num
        XY(i) == x[i] * y[i].num
        XX(i) == x[i] * x[i]
        sx == SumOver(X, 1, m)
        sy == SumOver(Y, 1, m)
    IN  IF HasNaN(y) THEN NaN
        ELSE Float(unit * (m * SumOver(XY, 1, m) - sx * sy), m * SumOver(XX, 1, m) - sx * sx)

\* lines 72-82: the last min(len(g), 4) samples, taken to be 5 minutes apart
LastSamplesWindow(g) ==
    LET k == IF Len(g) < 4 THEN Len(g) ELSE 4
        gw == PyTail(g, k)
        base == NpMean(gw)
        tmin == [i \in 1..k |-> (i - 1) * 5]
    IN  IF k >= 3 THEN <<base, PolyfitSlope(tmin, 1, gw)>>
        ELSE <<base, Float(0, 1)>>

\* _baseline_and_slope(glucose_values, timestamps, baseline_minutes): the
\* tuple (base, slope).  timestamps is None or a List; glucose_values and a
\* non-empty timestamps have the same length, and the timestamps that parse are strictly increasing.
BaselineAndSlope(glucose_values, timestamps, baseline_minutes) ==
    LET g == DropNa(glucose_values)
    IN  IF Len(g) = 0 THEN <<Float(0, 1), Float(0, 1)>>
        ELSE IF ~TruthyList(timestamps) THEN LastSamplesWindow(g)
        ELSE
          LET ok == NotNa(timestamps.items)
              parsed == Masked([i \in DOMAIN timestamps.items |->
                                   ToDatetime(timestamps.items[i])], ok, 1)
              ts == [i \in DOMAIN parsed |-> parsed[i].sec]
              g2 == Masked(glucose_values, ok, 1)
          IN  IF Len(ts) < 3 THEN LastSamplesWindow(g)
              ELSE
                LET w_idx == WindowIdx(ts, baseline_minutes)
                    gw == Masked(g2, w_idx, 1)
                    tw == Masked(ts, w_idx, 1)
                    tsec == [i \in DOMAIN tw |-> tw[i] - tw[1]]
                IN  IF Cardinality(w_idx) >= 3
                    THEN <<NpMean(gw), PolyfitSlope(tsec, 60, gw)>>
                    ELSE LastSamplesWindow(g)

-----------------------------------------------------------------------------
(* Specification SpecBaseline: _baseline_and_slope applied to one pre-meal
   history *)

\* The longest pre-meal history drawn.
MaxSamples == 6

\* The history a with sample j missing (None in the payload, NaN once coerced);
\* j = 0 leaves it whole.
WithGap(a, j) == [i \in DOMAIN a |-> IF i = j THEN NaN ELSE a[i]]

\* n timestamps step minutes apart, the last one late minutes after the one
\* before it; entry bad is a string that is not a time (bad = 0: none is).
TimestampList(n, step, late, bad) ==
    [i \in 1..n |->
        IF i = bad THEN Str("not a time")
        ELSE IF i < n \/ n = 1 THEN IsoStr(36000 + 60 * step * (i - 1), TRUE)
        ELSE IsoStr(36000 + 60 * step * (n - 2) + 60 * late, TRUE)]

BaselineInputs ==
    {[glucose_values |-> WithGap(GlucoseSeries(n, a, b, c), j),
      timestamps |-> ts,
      baseline_minutes |-> 15] :
        <<n, a, b, c, j, ts>> \in
            {q \in (0..MaxSamples) \X {90, 100} \X {0, 5, -2} \X {0, 7} \X (0..MaxSamples)
                    \X ({None, List(<< >>)} \cup
                        {List(TimestampList(m, step, late, bad)) :
                            m \in 1..MaxSamples, step \in {1, 5, 20},
                            late \in {1, 5, 30}, bad \in 0..MaxSamples}) :
                /\ q[5] <= q[1]
                /\ ~TruthyList(q[6]) \/ Len(q[6].items) = q[1]}}

InitBaseline ==
    /\ bs_args \in BaselineInputs
    /\ bs_result = NoCall
    /\ RegistryIdle
    /\ PredictIdle
    /\ FeaturesIdle
    /\ CurveIdle

CallBaselineAndSlope ==
    /\ bs_result = NoCall
    /\ bs_result' = BaselineAndSlope(bs_args.glucose_values, bs_args.timestamps,
                                     bs_args.baseline_minutes)
    /\ UNCHANGED <<bs_args, registryVars, predictVars, featureVars, curveVars>>

NextBaseline == CallBaselineAndSlope

SpecBaseline == InitBaseline /\ [][NextBaseline]_vars

Measured == bs_result # NoCall

\* The samples of the call whose timestamp parsed, and those of them that the
\* 15-minute window before the last such timestamp holds.
Timestamped == NotNa(bs_args.timestamps.items)

InWindow ==
    LET parsed == Masked([i \in DOMAIN bs_args.timestamps.items |->
                             ToDatetime(bs_args.timestamps.items[i])], Timestamped, 1)
        ts == [i \in DOMAIN parsed |-> parsed[i].sec]
        g2 == Masked(bs_args.glucose_values, Timestamped, 1)
    IN  IF ts = << >> THEN << >> ELSE Masked(g2, WindowIdx(ts, 15), 1)

\* C11: when timestamps are supplied and fewer than 3 timestamped samples lie
\* in the trailing 15-minute window, _baseline_and_slope returns slope = 0.0
\* and, as baseline, the mean of the in-window samples; the last-4-samples
\* window is used only when timestamps are absent.
C11_SlopeNeedsThreeInWindow ==
    (/\ Measured
     /\ TruthyList(bs_args.timestamps)
     /\ DropNa(bs_args.glucose_values) # << >>
     /\ Len(InWindow) < 3)
        => /\ bs_result[2] = Float(0, 1)
           /\ InWindow # << >> => bs_result[1] = NpMean(InWindow)

====
